---- MODULE Spec2Model ----
(***************************************************************************)
(* Agent reconciliation and rendering state machine of agent-world-2d:     *)
(* MainScene.updateAgents / drawConnections and the polling Game component *)
(* of agent-world-frontend/components/Game.tsx.                            *)
(*                                                                         *)
(* Strings (names, statuses, texture keys) are sequences of one-character  *)
(* strings, so that String.includes and String.toUpperCase are computed.   *)
(* A missing id is the value Undef (the key `undefined` of a JS Map); a    *)
(* missing coordinate is Undefined and the number it yields is NaN.        *)
(***************************************************************************)
EXTENDS Integers, Sequences, FiniteSets, TLC

VARIABLES
    inited,          \* agentGroup and connectionGraphics are set (create() has run)
    agentMap,        \* MainScene.agentMap: id -> container
    created,         \* number of containers ever made by this.add.container
    destroyed,       \* <<id, uid>> of every container on which destroy() was called
    tweens,          \* the scene's tween list, in the order of this.tweens.add
    links,           \* the curves held by connectionGraphics since its last clear()
    lastCall,        \* the handler that ran last, and its argument
    db,              \* rows of the backend table `agents`
    pending,         \* fetches in flight
    issued,          \* number of fetchAgents calls so far
    agentPositions,  \* the React state of Game
    dirty,           \* agentPositions was set and its effect has not run yet
    interval,        \* the poll timer (and the push channel) is live
    gameRef,         \* gameRef.current is a Phaser.Game
    order            \* issue numbers: of the fetch agentPositions came from, and
                     \* the greatest of the fetches that have completed with data

sceneVars == <<inited, agentMap, created, destroyed, tweens, links>>
gameVars == <<db, pending, issued, agentPositions, dirty, interval, gameRef, order>>
vars == <<inited, agentMap, created, destroyed, tweens, links, lastCall,
          db, pending, issued, agentPositions, dirty, interval, gameRef, order>>

(***************************************************************************)
(* Bounds of the model.                                                    *)
(***************************************************************************)
MaxLen == 2        \* longest snapshot passed to updateAgents
MaxCreated == 3    \* containers made in one run
MaxTweens == 2     \* tweens alive at once
TweenFrames == 2   \* render frames that one 600 ms tween spans
MaxDrawLen == 3    \* longest snapshot passed to drawConnections alone
MaxFetches == 3    \* fetchAgents calls in one run
MaxInFlight == 2   \* fetches pending at once
MaxBucket == 0     \* 5-second buckets of Date.now() that the run spans

(***************************************************************************)
(* Program constants.                                                      *)
(***************************************************************************)
TILE_SIZE == 32
DEFAULT_AGENT_COLOR == 10265519     \* 0x9ca3af

Undef == "undefined"   \* agent.id of an entry that has no id
Undefined == -1        \* agent.x / agent.y of an entry that has no position
NaN == -1000000        \* undefined * TILE_SIZE + TILE_SIZE / 2

Echo == <<"E", "c", "h", "o">>
Stack == <<"S", "t", "a", "c", "k">>
Ship == <<"S", "h", "i", "p">>
Dash == <<"D", "a", "s", "h">>
Pixel == <<"P", "i", "x", "e", "l">>
Pulse == <<"P", "u", "l", "s", "e">>
Probe == <<"P", "r", "o", "b", "e">>

\* Object.keys(AGENT_CONFIG): insertion order of the table
ConfigKeys == <<Echo, Stack, Ship, Dash, Pixel, Pulse, Probe>>

\* AGENT_CONFIG[key].color, by position in ConfigKeys
ConfigColor == <<3900150, 15381256, 16347926, 11032055, 2278750, 440020, 15680580>>

AgentPrefix == <<"a", "g", "e", "n", "t", "-">>
TextureDefault == AgentPrefix \o <<"d", "e", "f", "a", "u", "l", "t">>
IDLE == <<"I", "D", "L", "E">>

LowerCase == <<"a", "b", "c", "d", "e", "f", "g", "h", "i", "j", "k", "l", "m",
               "n", "o", "p", "q", "r", "s", "t", "u", "v", "w", "x", "y", "z">>
UpperCase == <<"A", "B", "C", "D", "E", "F", "G", "H", "I", "J", "K", "L", "M",
               "N", "O", "P", "Q", "R", "S", "T", "U", "V", "W", "X", "Y", "Z">>

\* the upper-case letter of every lower-case letter
UpperOf ==
    [c \in { LowerCase[i] : i \in 1..Len(LowerCase) } |->
        UpperCase[CHOOSE i \in 1..Len(LowerCase) : LowerCase[i] = c]]

\* String.prototype.toUpperCase on one character
UpperChar(c) == IF c \in DOMAIN UpperOf THEN UpperOf[c] ELSE c

toUpperCase(s) == [i \in 1..Len(s) |-> UpperChar(s[i])]

\* String.prototype.includes
includes(s, k) ==
    \E i \in 1..(Len(s) - Len(k) + 1) : SubSeq(s, i, i + Len(k) - 1) = k

(***************************************************************************)
(* Inputs: the snapshot entries the runs draw from.  Every entry has a     *)
(* name (agent.name.includes throws on an entry without one, and           *)
(* getMockStatus throws on it before the entry can reach the scene).       *)
(* status <<>> is an absent (or empty) status.                             *)
(***************************************************************************)
StackEcho == Stack \o Echo
LowerEcho == <<"e", "c", "h", "o">>
Bob == <<"B", "o", "b">>
Busy == <<"b", "u", "s", "y">>

Agent(id, x, y, name, status) ==
    [id |-> id, x |-> x, y |-> y, name |-> name, status |-> status]

AgentPool ==
    { Agent("1", 0, 0, StackEcho, <<>>),
      Agent("1", 1, 0, Ship, Busy),
      Agent("2", 1, 1, LowerEcho, <<>>),
      Agent("3", 0, 1, Echo, Busy),
      Agent(Undef, 1, 0, Bob, <<>>),
      Agent("2", Undefined, Undefined, Dash, <<>>) }

SeqsUpTo(S, n) == UNION { [1..k -> S] : k \in 0..n }

Snapshots == SeqsUpTo(AgentPool, MaxLen)

Max(a, b) == IF a >= b THEN a ELSE b

(***************************************************************************)
(* MainScene.updateAgents                                                  *)
(***************************************************************************)
EmptyMap == [id \in {} |-> 0]

\* new Set(agents.map(a => a.id))
currentIds(agents) == { agents[i].id : i \in DOMAIN agents }

\* variant: the loop finds nothing to remove
missingIds_keepAll(map, ids) == {}

\* the keys the "Remove missing" loop destroys and deletes
missingIds(map, ids) == { id \in DOMAIN map : id \notin ids }

\* variant: every entry takes the create branch
has_never(map, id) == FALSE

\* this.agentMap.has(agent.id)
has(map, id) == id \in DOMAIN map

\* variant: the corner of the cell instead of its centre
cellToPixel_corner(c) == IF c = Undefined THEN NaN ELSE c * TILE_SIZE

\* agent.x * TILE_SIZE + TILE_SIZE / 2
cellToPixel(c) == IF c = Undefined THEN NaN ELSE c * TILE_SIZE + TILE_SIZE \div 2

\* Object.keys(AGENT_CONFIG).find(k => agent.name.includes(k)), as the index
\* of the key in ConfigKeys; 0 when find returns undefined
RECURSIVE findFrom(_, _)
findFrom(name, i) ==
    IF i > Len(ConfigKeys) THEN 0
    ELSE IF includes(name, ConfigKeys[i]) THEN i
    ELSE findFrom(name, i + 1)

\* variant: the last matching key of the table instead of the first
RECURSIVE findLastFrom(_, _)
findLastFrom(name, i) ==
    IF i < 1 THEN 0
    ELSE IF includes(name, ConfigKeys[i]) THEN i
    ELSE findLastFrom(name, i - 1)

configKey_last(name) == findLastFrom(name, Len(ConfigKeys))

configKey(name) == findFrom(name, 1)

textureKey(name) ==
    IF configKey(name) = 0 THEN TextureDefault
    ELSE AgentPrefix \o ConfigKeys[configKey(name)]

agentColor(name) ==
    IF configKey(name) = 0 THEN DEFAULT_AGENT_COLOR
    ELSE ConfigColor[configKey(name)]

\* agent.status || 'IDLE'
statusText(agent) == IF agent.status = <<>> THEN IDLE ELSE agent.status

\* the container of the else branch: sprite, name label and status bubble
NewContainer(uid, agent) ==
    [uid |-> uid,
     x |-> cellToPixel(agent.x),
     y |-> cellToPixel(agent.y),
     texture |-> textureKey(agent.name),
     color |-> agentColor(agent.name),
     nameText |-> toUpperCase(agent.name),
     statusText |-> toUpperCase(statusText(agent))]

\* this.tweens.add({targets: container, x: targetX, y: targetY, duration: 600})
NewTween(uid, agent) ==
    [target |-> uid,
     x |-> cellToPixel(agent.x),
     y |-> cellToPixel(agent.y),
     elapsed |-> 0, fromX |-> 0, fromY |-> 0]

MapSet(map, k, v) == [id \in DOMAIN map \cup {k} |-> IF id = k THEN v ELSE map[id]]

\* variant: destroyed containers stay in the map
MapDelete_keep(map, ks) == map

\* this.agentMap.delete(id) for every id of ks
MapDelete(map, ks) == [id \in DOMAIN map \ ks |-> map[id]]

\* the "Remove missing" loop
RemoveMissing(st, agents) ==
    LET gone == missingIds(st.map, currentIds(agents))
    IN  [st EXCEPT !.map = MapDelete(st.map, gone),
                   !.destroyed = st.destroyed \cup { <<id, st.map[id].uid>> : id \in gone }]

\* variant: the update branch also gives the container the style of the name
AddOrUpdate_restyle(st, agent) ==
    IF has(st.map, agent.id)
    THEN [st EXCEPT !.map[agent.id].statusText = toUpperCase(statusText(agent)),
                    !.map[agent.id].nameText = toUpperCase(agent.name),
                    !.map[agent.id].texture = textureKey(agent.name),
                    !.map[agent.id].color = agentColor(agent.name),
                    !.tweens = Append(st.tweens, NewTween(st.map[agent.id].uid, agent))]
    ELSE [st EXCEPT !.map = MapSet(st.map, agent.id, NewContainer(st.created + 1, agent)),
                    !.created = st.created + 1]

\* the body of agents.forEach
AddOrUpdate(st, agent) ==
    IF has(st.map, agent.id)
    THEN [st EXCEPT !.map[agent.id].statusText = toUpperCase(statusText(agent)),
                    !.map[agent.id].nameText = toUpperCase(agent.name),
                    !.tweens = Append(st.tweens, NewTween(st.map[agent.id].uid, agent))]
    ELSE [st EXCEPT !.map = MapSet(st.map, agent.id, NewContainer(st.created + 1, agent)),
                    !.created = st.created + 1]

\* variant: an entry whose id an earlier entry of the snapshot has is skipped
RECURSIVE forEach_distinct(_, _, _)
forEach_distinct(agents, i, st) ==
    IF i > Len(agents) THEN st
    ELSE IF \E j \in 1..(i - 1) : agents[j].id = agents[i].id
    THEN forEach_distinct(agents, i + 1, st)
    ELSE forEach_distinct(agents, i + 1, AddOrUpdate(st, agents[i]))

\* agents.forEach(agent => ...)
RECURSIVE forEach(_, _, _)
forEach(agents, i, st) ==
    IF i > Len(agents) THEN st
    ELSE forEach(agents, i + 1, AddOrUpdate(st, agents[i]))

(***************************************************************************)
(* MainScene.drawConnections                                               *)
(***************************************************************************)
\* the curve of loop index i (0-based)
Curve(agents, i) ==
    [startX |-> cellToPixel(agents[i + 1].x),
     startY |-> cellToPixel(agents[i + 1].y),
     endX |-> cellToPixel(agents[i + 2].x),
     endY |-> cellToPixel(agents[i + 2].y),
     offset |-> IF i % 2 = 0 THEN -50 ELSE 50]

\* for (let i = first; i < agents.length - 1; i++)
RECURSIVE drawFrom(_, _, _)
drawFrom(agents, i, acc) ==
    IF i < Len(agents) - 1
    THEN drawFrom(agents, i + 1, Append(acc, Curve(agents, i)))
    ELSE acc

\* variant: the loop starts at the second agent
drawConnections_skipFirst(agents) ==
    IF Len(agents) < 2 THEN <<>> ELSE drawFrom(agents, 1, <<>>)

\* variant: clear() leaves the curves already drawn
clear_keep(graphics) == graphics

\* this.connectionGraphics.clear(): the curves on the cleared graphics
clear(graphics) == <<>>

\* the curves drawn after connectionGraphics.clear()
drawConnections(agents) ==
    IF Len(agents) < 2 THEN <<>> ELSE drawFrom(agents, 0, <<>>)

\* the scene after updateAgents(agents) has run past its guard
Reconciled(agents) ==
    forEach(agents, 1,
            RemoveMissing([map |-> agentMap, created |-> created,
                           destroyed |-> destroyed, tweens |-> tweens], agents))

Call(op, agents) ==
    [op |-> op, agents |-> agents,
     same |-> op = "updateAgents" /\ lastCall.op = "updateAgents"
              /\ lastCall.agents = agents]

\* what one call has room for within the bounds of the model
Fits(agents) ==
    \/ ~inited
    \/ LET r == Reconciled(agents)
       IN  r.created <= MaxCreated /\ Len(r.tweens) <= MaxTweens

\* variant: no guard on agentGroup and connectionGraphics
updateAgents_noGuard(agents) ==
    LET r == Reconciled(agents)
    IN  /\ agentMap' = r.map
        /\ created' = r.created
        /\ destroyed' = r.destroyed
        /\ tweens' = r.tweens
        /\ links' = clear(links) \o drawConnections(agents)
        /\ UNCHANGED inited

\* if (!this.agentGroup || !this.connectionGraphics) return; then the pass
updateAgents(agents) ==
    IF ~inited
    THEN UNCHANGED sceneVars
    ELSE LET r == Reconciled(agents)
         IN  /\ agentMap' = r.map
             /\ created' = r.created
             /\ destroyed' = r.destroyed
             /\ tweens' = r.tweens
             /\ links' = clear(links) \o drawConnections(agents)
             /\ UNCHANGED inited

(***************************************************************************)
(* The tween manager's step on one render frame.  A tween reads its start  *)
(* value on its first frame; the tweens of a frame run in the order they   *)
(* were added, each writing x and y of its target.                         *)
(***************************************************************************)
\* Cubic.easeOut between from and to, k frames out of TweenFrames
Lerp(from, to, k) ==
    IF from = NaN \/ to = NaN THEN NaN
    ELSE IF k >= TweenFrames THEN to
    ELSE from + ((to - from) * (TweenFrames * TweenFrames * TweenFrames
                    - (TweenFrames - k) * (TweenFrames - k) * (TweenFrames - k)))
                \div (TweenFrames * TweenFrames * TweenFrames)

Holder(map, uid) == { id \in DOMAIN map : map[id].uid = uid }

\* one tween's step: st = [map, tweens]
StepTween(st, t) ==
    LET live == Holder(st.map, t.target) # {}
        id == CHOOSE id \in Holder(st.map, t.target) : TRUE
        fx == IF t.elapsed > 0 THEN t.fromX ELSE IF live THEN st.map[id].x ELSE t.x
        fy == IF t.elapsed > 0 THEN t.fromY ELSE IF live THEN st.map[id].y ELSE t.y
        k == t.elapsed + 1
        moved == IF live
                 THEN [st.map EXCEPT ![id].x = Lerp(fx, t.x, k), ![id].y = Lerp(fy, t.y, k)]
                 ELSE st.map
    IN  [map |-> moved,
         tweens |-> IF k >= TweenFrames THEN st.tweens
                    ELSE Append(st.tweens, [t EXCEPT !.elapsed = k, !.fromX = fx, !.fromY = fy])]

RECURSIVE stepAll(_, _, _)
stepAll(tw, i, st) ==
    IF i > Len(tw) THEN st ELSE stepAll(tw, i + 1, StepTween(st, tw[i]))

(***************************************************************************)
(* Actions of the scene.                                                   *)
(***************************************************************************)
\* MainScene.create
Create ==
    /\ ~inited
    /\ inited' = TRUE
    /\ lastCall' = Call("create", <<>>)
    /\ UNCHANGED <<agentMap, created, destroyed, tweens, links>>
    /\ UNCHANGED gameVars

\* a caller hands a snapshot to scene.updateAgents
UpdateAgents ==
    \E agents \in Snapshots :
        /\ Fits(agents)
        /\ updateAgents(agents)
        /\ lastCall' = Call("updateAgents", agents)
        /\ UNCHANGED gameVars

\* drawConnections called with a snapshot
DrawConnections ==
    \E agents \in SeqsUpTo(AgentPool, MaxDrawLen) :
        /\ links' = IF inited THEN clear(links) \o drawConnections(agents) ELSE links
        /\ lastCall' = Call("drawConnections", agents)
        /\ UNCHANGED <<inited, agentMap, created, destroyed, tweens>>
        /\ UNCHANGED gameVars

\* one render frame
Frame ==
    /\ tweens # <<>>
    /\ LET r == stepAll(tweens, 1, [map |-> agentMap, tweens |-> <<>>])
       IN  agentMap' = r.map /\ tweens' = r.tweens
    /\ lastCall' = Call("frame", <<>>)
    /\ UNCHANGED <<inited, created, destroyed, links>>
    /\ UNCHANGED gameVars

(***************************************************************************)
(* The Game component: polling, push notifications, the React state and    *)
(* the effect that hands it to the scene.                                  *)
(***************************************************************************)
Row(id, name, x, y) == [id |-> id, name |-> name, x |-> x, y |-> y]

TableA == <<Row("1", StackEcho, 0, 0), Row("2", LowerEcho, 1, 1)>>
TableB == <<Row("2", LowerEcho, 1, 1), Row("3", Echo, 0, 1)>>
TableC == <<Row("1", Ship, 1, 0)>>

\* the contents the table `agents` takes during a run
Tables == {<<>>, TableA, TableB, TableC}

Statuses ==
    << <<"S", "C", "A", "N", "N", "I", "N", "G">>,
       <<"C", "O", "M", "P", "I", "L", "I", "N", "G">>,
       <<"I", "D", "L", "E">>,
       <<"U", "P", "L", "O", "A", "D", "I", "N", "G">>,
       <<"S", "Y", "N", "C", "I", "N", "G">>,
       <<"D", "E", "B", "U", "G", "G", "I", "N", "G">> >>

\* getMockStatus at a time whose Math.floor(Date.now() / 5000) is bucket
getMockStatus(name, bucket) == Statuses[((Len(name) + bucket) % Len(Statuses)) + 1]

\* data.map(agent => ({...agent, status: getMockStatus(agent.name)}))
enhancedData(data, bucket) ==
    [i \in 1..Len(data) |->
        Agent(data[i].id, data[i].x, data[i].y, data[i].name,
              getMockStatus(data[i].name, bucket))]

Remove(s, i) == [j \in 1..(Len(s) - 1) |-> IF j < i THEN s[j] ELSE s[j + 1]]

\* variant: a sequence-number guard that rejects data older than data applied
accepts_newerOnly(seq) == seq > order.newest

\* whether a completed fetch's data is handed to setAgentPositions
accepts(seq) == TRUE

\* variant: an error clears the displayed agents
afterError_clear == [agents |-> <<>>, dirty |-> TRUE]

\* agentPositions and its pending effect after a fetch that returned an error
afterError == [agents |-> agentPositions, dirty |-> dirty]

\* fetchAgents up to its await: the query is sent and reads the table
fetchAgents ==
    /\ issued < MaxFetches
    /\ Len(pending) < MaxInFlight
    /\ issued' = issued + 1
    /\ pending' = Append(pending, [seq |-> issued + 1, data |-> db])

\* setInterval(fetchAgents, 2000) fires
Poll ==
    /\ interval
    /\ fetchAgents
    /\ lastCall' = Call("poll", <<>>)
    /\ UNCHANGED <<db, agentPositions, dirty, interval, gameRef, order>>
    /\ UNCHANGED sceneVars

\* setInterval(fetchAgents, 2000) fires, for as long as the timer lives; the
\* fetches past MaxFetches all carry the number MaxFetches
LivePoll ==
    /\ interval
    /\ Len(pending) < MaxInFlight
    /\ issued' = IF issued < MaxFetches THEN issued + 1 ELSE issued
    /\ pending' = Append(pending, [seq |-> issued', data |-> db])
    /\ lastCall' = Call("poll", <<>>)
    /\ UNCHANGED <<db, agentPositions, dirty, interval, gameRef, order>>
    /\ UNCHANGED sceneVars

\* the table changes; the postgres_changes callback of a live channel runs
Push ==
    \E t \in Tables \ {db} :
        /\ db' = t
        /\ IF interval
           THEN /\ issued < MaxFetches
                /\ Len(pending) < MaxInFlight
                /\ issued' = issued + 1
                /\ pending' = Append(pending, [seq |-> issued + 1, data |-> t])
           ELSE UNCHANGED <<issued, pending>>
        /\ lastCall' = Call("push", <<>>)
        /\ UNCHANGED <<agentPositions, dirty, interval, gameRef, order>>
        /\ UNCHANGED sceneVars

\* fetchAgents after its await, with data
FetchOk ==
    \E i \in DOMAIN pending, bucket \in 0..MaxBucket :
        /\ pending' = Remove(pending, i)
        /\ IF interval /\ accepts(pending[i].seq)
           THEN /\ agentPositions' = enhancedData(pending[i].data, bucket)
                /\ dirty' = TRUE
                /\ order' = [shown |-> pending[i].seq,
                             newest |-> Max(order.newest, pending[i].seq)]
           ELSE UNCHANGED <<agentPositions, dirty, order>>
        /\ lastCall' = Call("fetchOk", enhancedData(pending[i].data, bucket))
        /\ UNCHANGED <<db, issued, interval, gameRef>>
        /\ UNCHANGED sceneVars

\* fetchAgents after its await, with an error
FetchError ==
    \E i \in DOMAIN pending :
        /\ pending' = Remove(pending, i)
        /\ agentPositions' = afterError.agents
        /\ dirty' = afterError.dirty
        /\ lastCall' = Call("fetchError", <<>>)
        /\ UNCHANGED <<db, issued, interval, gameRef, order>>
        /\ UNCHANGED sceneVars

\* the effect of [agentPositions]
Effect ==
    /\ dirty
    /\ dirty' = FALSE
    /\ IF gameRef
       THEN /\ Fits(agentPositions)
            /\ updateAgents(agentPositions)
            /\ lastCall' = Call("updateAgents", agentPositions)
       ELSE /\ UNCHANGED sceneVars
            /\ lastCall' = Call("effect", <<>>)
    /\ UNCHANGED <<db, pending, issued, agentPositions, interval, gameRef, order>>

\* the Phaser game boots the scene
Boot == gameRef /\ Create

\* one render frame of the running game
GameFrame == gameRef /\ Frame

\* the cleanups of the effects
Unmount ==
    /\ interval
    /\ interval' = FALSE
    /\ gameRef' = FALSE
    /\ lastCall' = Call("unmount", <<>>)
    /\ UNCHANGED <<db, pending, issued, agentPositions, dirty, order>>
    /\ UNCHANGED sceneVars

Init ==
    /\ inited = FALSE
    /\ agentMap = EmptyMap
    /\ created = 0
    /\ destroyed = {}
    /\ tweens = <<>>
    /\ links = <<>>
    /\ lastCall = [op |-> "init", agents |-> <<>>, same |-> FALSE]
    /\ db = <<>>
    /\ pending = <<>>
    /\ issued = 0
    /\ agentPositions = <<>>
    /\ dirty = FALSE
    /\ interval = FALSE
    /\ gameRef = FALSE
    /\ order = [shown |-> 0, newest |-> 0]

Next == Create \/ UpdateAgents \/ Frame

Spec == Init /\ [][Next]_vars

\* drawConnections on its own, over longer snapshots
DrawNext == Create \/ DrawConnections

DrawSpec == Init /\ [][DrawNext]_vars

\* Game has mounted: the game object exists, the first fetch is in flight, the
\* timer and the channel are live, and the first run of the effect found no scene
GameInit ==
    /\ inited = FALSE
    /\ agentMap = EmptyMap
    /\ created = 0
    /\ destroyed = {}
    /\ tweens = <<>>
    /\ links = <<>>
    /\ lastCall = [op |-> "mount", agents |-> <<>>, same |-> FALSE]
    /\ db \in Tables
    /\ pending = <<[seq |-> 1, data |-> db]>>
    /\ issued = 1
    /\ agentPositions = <<>>
    /\ dirty = FALSE
    /\ interval = TRUE
    /\ gameRef = TRUE
    /\ order = [shown |-> 0, newest |-> 0]

GameNext ==
    Poll \/ Push \/ FetchOk \/ FetchError \/ Effect \/ Boot \/ GameFrame \/ Unmount

GameSpec == GameInit /\ [][GameNext]_vars

\* Game polling a table that does not change, without end: React runs the
\* effect of every state change, and the game loop renders frame after frame
LiveNext ==
    LivePoll \/ FetchOk \/ FetchError \/ Effect \/ Boot \/ GameFrame \/ Unmount

LiveSpec ==
    /\ GameInit
    /\ [][LiveNext]_vars
    /\ WF_vars(Effect)
    /\ WF_vars(GameFrame)

(***************************************************************************)
(* Properties.                                                             *)
(***************************************************************************)
\* the pixel centre of grid cell coordinate c
PixelCentre(c) == c * TILE_SIZE + TILE_SIZE \div 2

HasId(a) == a.id # Undef
HasPosition(a) == a.x # Undefined /\ a.y # Undefined

\* the ids of the entries that have an id and a position
WellFormedIds(agents) ==
    { agents[i].id : i \in { j \in DOMAIN agents : HasId(agents[j]) /\ HasPosition(agents[j]) } }

\* the snapshot without its malformed entries
RECURSIVE WellFormed(_)
WellFormed(agents) ==
    IF agents = <<>> THEN <<>>
    ELSE IF HasId(Head(agents)) /\ HasPosition(Head(agents))
         THEN <<Head(agents)>> \o WellFormed(Tail(agents))
         ELSE WellFormed(Tail(agents))

Occurrences(agents, id) == { i \in DOMAIN agents : agents[i].id = id }

FirstEntry(agents, id) ==
    agents[CHOOSE i \in Occurrences(agents, id) : \A j \in Occurrences(agents, id) : i <= j]

LastEntry(agents, id) ==
    agents[CHOOSE i \in Occurrences(agents, id) : \A j \in Occurrences(agents, id) : i >= j]

\* this step is a call of updateAgents on an initialized scene
PassStep == lastCall'.op = "updateAgents" /\ inited

\* the state is the one a call of updateAgents on an initialized scene left
AfterPass == lastCall.op = "updateAgents" /\ inited

\* C1 (as claimed): after updateAgents(Sn) returns on an initialized scene, the
\* keys of agentMap are exactly the ids of the entries of Sn that are not
\* malformed, whatever was applied before.
C1_IdentityConvergence ==
    AfterPass => DOMAIN agentMap = WellFormedIds(lastCall.agents)

\* C2: a call of updateAgents with the snapshot of the call right before it
\* creates no container, destroys none, and leaves every key of agentMap on
\* the very same container.
C2_NoDuplication ==
    [][ (lastCall'.op = "updateAgents" /\ lastCall'.same) =>
            /\ created' = created
            /\ destroyed' = destroyed
            /\ DOMAIN agentMap' = DOMAIN agentMap
            /\ Cardinality(DOMAIN agentMap') = Cardinality(DOMAIN agentMap)
            /\ \A id \in DOMAIN agentMap : agentMap'[id].uid = agentMap[id].uid ]_vars

\* C2's case: the second of two identical calls has run on a scene that
\* shows two entities.
C2_Witness ==
    AfterPass /\ lastCall.same /\ Cardinality(DOMAIN agentMap) = 2

\* C3: one pass destroys and removes the entities of the live ids that are not
\* in the snapshot, makes a new container for every id of the snapshot that
\* was not live, and keeps the container of every id in both, adding a tween
\* that retargets it.
C3_DiffSemantics ==
    [][ PassStep =>
          LET S == lastCall'.agents
              P == DOMAIN agentMap
              ids == currentIds(S)
              added == { tweens'[k] : k \in (Len(tweens) + 1)..Len(tweens') }
          IN  /\ \A id \in P \ ids :
                    /\ id \notin DOMAIN agentMap'
                    /\ <<id, agentMap[id].uid>> \in destroyed'
              /\ \A id \in ids \ P :
                    /\ id \in DOMAIN agentMap'
                    /\ agentMap'[id].uid > created
                    /\ agentMap'[id].uid <= created'
              /\ \A id \in ids \cap P :
                    /\ id \in DOMAIN agentMap'
                    /\ agentMap'[id].uid = agentMap[id].uid
                    /\ <<id, agentMap[id].uid>> \notin destroyed'
                    /\ \E t \in added :
                          /\ t.target = agentMap[id].uid
                          /\ \E i \in Occurrences(S, id) :
                                t.x = cellToPixel(S[i].x) /\ t.y = cellToPixel(S[i].y)
              /\ Cardinality(destroyed') = Cardinality(destroyed) + Cardinality(P \ ids)
              /\ created' = created + Cardinality(ids \ P) ]_vars

\* C3's case: ids {1, 2} were applied, then {2, 3}: the container of 1 is
\* destroyed, 2 is on its first container with a tween, 3 is on a new one.
C3_Witness ==
    /\ AfterPass
    /\ currentIds(lastCall.agents) = {"2", "3"}
    /\ <<"1", 1>> \in destroyed
    /\ DOMAIN agentMap = {"2", "3"}
    /\ agentMap["2"].uid = 2
    /\ agentMap["3"].uid = 3
    /\ \E k \in DOMAIN tweens : tweens[k].target = 2
    /\ Len(links) = 1

\* C4: drawConnections on n agents leaves exactly max(n-1, 0) links, the i-th
\* from the pixel centre of agents[i]'s cell to that of agents[i+1]'s cell (an
\* entry without a position gives NaN coordinates).
C4_ConnectionCount ==
    (lastCall.op = "drawConnections" /\ inited) =>
        LET S == lastCall.agents
            Centre(c) == IF c = Undefined THEN NaN ELSE PixelCentre(c)
        IN  /\ Len(links) = Max(Len(S) - 1, 0)
            /\ \A i \in 1..Len(links) :
                  /\ links[i].startX = Centre(S[i].x)
                  /\ links[i].startY = Centre(S[i].y)
                  /\ links[i].endX = Centre(S[i + 1].x)
                  /\ links[i].endY = Centre(S[i + 1].y)

\* C4's case: a snapshot of three agents has been drawn as two links.
C4_Witness ==
    /\ lastCall.op = "drawConnections"
    /\ inited
    /\ Len(lastCall.agents) = 3
    /\ Len(links) = 2
    /\ links[1].startX = 16 /\ links[1].endX = 48

\* the ids that this step of updateAgents gave a new container
Created == DOMAIN agentMap' \ DOMAIN agentMap

\* the tweens this step added
Added == { tweens'[k] : k \in (Len(tweens) + 1)..Len(tweens') }

\* C5: a fetch that completes with an error leaves agentPositions unset and its
\* effect unscheduled, so updateAgents does not run: the entities, their
\* positions and tweens, and the links stay as they were; the timer stays live.
C5_FetchFailureUnchanged ==
    [][ lastCall'.op = "fetchError" =>
            /\ agentPositions' = agentPositions
            /\ dirty' = dirty
            /\ agentMap' = agentMap
            /\ tweens' = tweens
            /\ links' = links
            /\ created' = created
            /\ destroyed' = destroyed
            /\ interval' = interval
            /\ Len(pending') = Len(pending) - 1 ]_vars

\* C5's case: a fetch has failed while the scene shows entities that are no
\* longer those of the table, and polling is live.
C5_Witness ==
    /\ lastCall.op = "fetchError"
    /\ inited
    /\ interval
    /\ ~dirty
    /\ DOMAIN agentMap # {}
    /\ DOMAIN agentMap # currentIds(db)
    /\ links # <<>>

\* C6 (as claimed): a pass over a snapshot with an entry that lacks an id or a
\* position leaves the entities exactly as the pass over the snapshot without
\* that entry would.
C6_MalformedDropped ==
    [][ PassStep =>
          LET r == Reconciled(WellFormed(lastCall'.agents))
          IN  /\ agentMap' = r.map
              /\ created' = r.created
              /\ destroyed' = r.destroyed
              /\ tweens' = r.tweens ]_vars

\* C7: the texture and colour of a newly created entity are those of the first
\* key of AGENT_CONFIG, in table order, that is a substring of the name it was
\* created from, and the default ones when no key is.
C7_StyleDeterminism ==
    [][ PassStep =>
          \A id \in Created :
            LET name == FirstEntry(lastCall'.agents, id).name
                e == agentMap'[id]
                Matches == { k \in 1..Len(ConfigKeys) : includes(name, ConfigKeys[k]) }
            IN  /\ Matches = {} =>
                      e.texture = TextureDefault /\ e.color = DEFAULT_AGENT_COLOR
                /\ \A k \in Matches :
                      (\A j \in Matches : k <= j) =>
                          /\ e.texture = AgentPrefix \o ConfigKeys[k]
                          /\ e.color = ConfigColor[k]
                /\ name = StackEcho => e.texture = AgentPrefix \o Echo ]_vars

\* C7's case: entities made from the names "StackEcho" and "echo" are live, the
\* first with Echo's style, the second with the default style.
C7_Witness ==
    /\ AfterPass
    /\ \E id \in DOMAIN agentMap :
          /\ agentMap[id].nameText = toUpperCase(StackEcho)
          /\ agentMap[id].texture = AgentPrefix \o Echo
          /\ agentMap[id].color = ConfigColor[1]
    /\ \E id \in DOMAIN agentMap :
          /\ agentMap[id].nameText = toUpperCase(LowerEcho)
          /\ agentMap[id].texture = TextureDefault

\* C8: a newly created entity is at the pixel centre of the cell of the entry
\* that created it, (16, 16) for cell (0, 0), and no tween moves it there (a
\* tween targets it only if its id occurs again in the same snapshot); a pass
\* over a one-agent snapshot leaves one entity and no link.
C8_CreatedAtPixel ==
    [][ PassStep =>
          LET S == lastCall'.agents
          IN  /\ \A id \in Created :
                    LET a == FirstEntry(S, id)
                        e == agentMap'[id]
                    IN  /\ a.x # Undefined => e.x = PixelCentre(a.x)
                        /\ a.y # Undefined => e.y = PixelCentre(a.y)
                        /\ (a.x = 0 /\ a.y = 0) => (e.x = 16 /\ e.y = 16)
                        /\ Cardinality(Occurrences(S, id)) = 1 =>
                              \A t \in Added : t.target # e.uid
              /\ Len(S) = 1 =>
                    /\ Cardinality(DOMAIN agentMap') = 1
                    /\ links' = <<>> ]_vars

\* C8's case: the one-agent snapshot with an agent at cell (0, 0) was applied
\* to an empty scene.
C8_Witness ==
    /\ AfterPass
    /\ Len(lastCall.agents) = 1
    /\ lastCall.agents[1].x = 0 /\ lastCall.agents[1].y = 0
    /\ DOMAIN agentMap = {"1"}
    /\ agentMap["1"].x = 16 /\ agentMap["1"].y = 16
    /\ agentMap["1"].uid = 1
    /\ tweens = <<>>
    /\ links = <<>>

\* the data of the fetch that this step completed
Completed == { i \in DOMAIN pending : pending' = Remove(pending, i) }

\* C9: a fetch that completes with data while Game is mounted sets
\* agentPositions to that fetch's data whatever its issue number, and the pass
\* of the effect leaves the scene with the ids of the data set last: the scene
\* follows completion order, also when the data is older than data shown before.
C9_ReceiptOrder ==
    /\ [][ (lastCall'.op = "fetchOk" /\ interval) =>
              /\ dirty'
              /\ agentPositions' = lastCall'.agents
              /\ \E i \in Completed :
                    /\ order'.shown = pending[i].seq
                    /\ \E b \in 0..MaxBucket :
                          agentPositions' = enhancedData(pending[i].data, b) ]_vars
    /\ [](AfterPass /\ gameRef => DOMAIN agentMap = currentIds(agentPositions))
    /\ [](AfterPass /\ gameRef => ~dirty)

\* C9's case: the scene shows the data of a fetch issued before one that had
\* already completed with other data.
C9_Witness ==
    /\ AfterPass
    /\ gameRef
    /\ order.shown < order.newest
    /\ DOMAIN agentMap = currentIds(agentPositions)
    /\ DOMAIN agentMap # currentIds(db)
    /\ DOMAIN agentMap # {}
    /\ destroyed # {}

\* C10: no live entity is a destroyed container, and an id that was destroyed
\* before and is in the snapshot again gets a container that is none of its
\* destroyed ones, made at the pixel centre of the new entry's cell with the
\* style and texts of the new snapshot, and targeted by no tween left from
\* before.
C10_Reappearance ==
    /\ [](\A id \in DOMAIN agentMap : <<id, agentMap[id].uid>> \notin destroyed)
    /\ [][ PassStep =>
             \A id \in { i \in Created : \E u \in 1..created : <<i, u>> \in destroyed } :
                LET S == lastCall'.agents
                    a == FirstEntry(S, id)
                    z == LastEntry(S, id)
                    e == agentMap'[id]
                IN  /\ e.uid > created
                    /\ \A u \in 1..created' : <<id, u>> \in destroyed' => u # e.uid
                    /\ a.x # Undefined => e.x = PixelCentre(a.x)
                    /\ a.y # Undefined => e.y = PixelCentre(a.y)
                    /\ e.texture = textureKey(a.name)
                    /\ e.color = agentColor(a.name)
                    /\ e.nameText = toUpperCase(z.name)
                    /\ e.statusText = toUpperCase(IF z.status = <<>> THEN IDLE ELSE z.status)
                    /\ \A k \in DOMAIN tweens : tweens[k].target # e.uid
                    /\ Cardinality(Occurrences(S, id)) = 1 =>
                          \A t \in Added : t.target # e.uid ]_vars

\* C10's case: id 1 was live at cell (0, 0) as "StackEcho", was destroyed, and
\* is live again on a second container made at cell (1, 0) as "Ship".
C10_Witness ==
    /\ AfterPass
    /\ <<"1", 1>> \in destroyed
    /\ "1" \in DOMAIN agentMap
    /\ agentMap["1"].uid = created
    /\ agentMap["1"].uid > 1
    /\ agentMap["1"].x = 48 /\ agentMap["1"].y = 16
    /\ agentMap["1"].texture = AgentPrefix \o Ship
    /\ agentMap["1"].nameText = toUpperCase(Ship)
    /\ \A k \in DOMAIN tweens : tweens[k].target # agentMap["1"].uid

\* the places in tween list tw of the tweens that target container uid
TweensOf(tw, uid) == { k \in DOMAIN tw : tw[k].target = uid }

\* the tween of uid in tw that was added last, and the one added before it
Newest(tw, uid) == tw[CHOOSE k \in TweensOf(tw, uid) : \A j \in TweensOf(tw, uid) : j <= k]

Previous(tw, uid) ==
    tw[CHOOSE k \in TweensOf(tw, uid) :
          /\ \E j \in TweensOf(tw, uid) : j > k
          /\ \A j \in TweensOf(tw, uid) : j <= k \/ \A i \in TweensOf(tw, uid) : i <= j]

\* the value a running tween gives its target
ValueX(t) == Lerp(t.fromX, t.x, t.elapsed)
ValueY(t) == Lerp(t.fromY, t.y, t.elapsed)

\* this step is a render frame
FrameStep == lastCall'.op = "frame"

C12_CancelOnDestroy ==
    \A k \in DOMAIN tweens : \A p \in destroyed : tweens[k].target # p[2]

\* the links of snapshot S: one per consecutive pair of entries, between the
\* pixel centres of their cells, bending to alternate sides
LinkOf(S, i) ==
    LET Centre(c) == IF c = Undefined THEN NaN ELSE PixelCentre(c)
    IN  [startX |-> Centre(S[i].x), startY |-> Centre(S[i].y),
         endX |-> Centre(S[i + 1].x), endY |-> Centre(S[i + 1].y),
         offset |-> IF i % 2 = 1 THEN -50 ELSE 50]

LinksOf(S) == [i \in 1..Max(Len(S) - 1, 0) |-> LinkOf(S, i)]

\* C13: every pass of updateAgents on an initialized scene leaves exactly the
\* links of that pass's snapshot, whatever was drawn before; a snapshot of
\* fewer than 2 agents leaves no link.
C13_LinksRederived ==
    [][ PassStep =>
          /\ links' = LinksOf(lastCall'.agents)
          /\ Len(lastCall'.agents) < 2 => links' = <<>>
          /\ Len(links') = Max(Len(lastCall'.agents) - 1, 0) ]_vars

\* C13's case: the same two-agent snapshot was applied twice in a row, so a
\* link was already drawn when the last pass ran, and one link is drawn.
C13_Witness ==
    /\ AfterPass
    /\ lastCall.same
    /\ Len(lastCall.agents) = 2
    /\ Len(links) = 1
    /\ links = LinksOf(lastCall.agents)

\* C14: a pass whose snapshot equals the one applied just before it leaves
\* the number of entities unchanged and adds no tween for an entity that the
\* snapshot lists once (so its target cell is the one it already had).
C14_IdenticalSnapshots ==
    [][ (PassStep /\ lastCall'.same) =>
          /\ Cardinality(DOMAIN agentMap') = Cardinality(DOMAIN agentMap)
          /\ \A id \in DOMAIN agentMap :
                Cardinality(Occurrences(lastCall'.agents, id)) = 1 =>
                    \A t \in Added : t.target # agentMap[id].uid ]_vars

\* C15: a pass over an entity that exists already leaves its container, its
\* texture, its colour and its position as they were, sets its name and status
\* texts from the snapshot's last entry for it, and adds one tween per entry
\* for it, to that entry's cell.
C15_StyleFixedAtCreation ==
    [][ PassStep =>
          \A id \in DOMAIN agentMap \cap DOMAIN agentMap' :
              LET old == agentMap[id]
                  new == agentMap'[id]
                  last == LastEntry(lastCall'.agents, id)
              IN  /\ new.uid = old.uid
                  /\ new.texture = old.texture
                  /\ new.color = old.color
                  /\ new.x = old.x /\ new.y = old.y
                  /\ new.nameText = toUpperCase(last.name)
                  /\ new.statusText = toUpperCase(statusText(last))
                  /\ Cardinality({ k \in (Len(tweens) + 1)..Len(tweens') :
                                      tweens'[k].target = old.uid })
                        = Cardinality(Occurrences(lastCall'.agents, id)) ]_vars

\* C15's case: after a pass, a live entity carries the name of the snapshot
\* but a texture and a colour that the style table does not give for that name.
C15_Witness ==
    /\ AfterPass
    /\ \E id \in DOMAIN agentMap :
          /\ Occurrences(lastCall.agents, id) # {}
          /\ agentMap[id].nameText = toUpperCase(LastEntry(lastCall.agents, id).name)
          /\ agentMap[id].texture # textureKey(LastEntry(lastCall.agents, id).name)
          /\ agentMap[id].color # agentColor(LastEntry(lastCall.agents, id).name)

\* a fetch has just handed its data to setAgentPositions
Accepted == lastCall.op = "fetchOk" /\ interval /\ dirty

\* the last step was a pass on the initialized scene, and the live ids are
\* those of the snapshot it was given
Displayed == AfterPass /\ DOMAIN agentMap = currentIds(lastCall.agents)

\* C16: a call of updateAgents before create() has run changes nothing of the
\* scene, and create() shows nothing of the snapshots handed over before it:
\* entities change only in passes on the initialized scene and in frames.
\* Yet if fetches keep succeeding, every snapshot accepted once the scene is
\* initialized leads to a pass after which the live ids are the ids of the
\* snapshot shown, so with the scene eventually initialized that happens.
C16_EventualDisplay ==
    /\ [][ (lastCall'.op = "updateAgents" /\ ~inited) =>
              (~inited' /\ agentMap' = agentMap /\ tweens' = tweens
               /\ links' = links /\ created' = created) ]_vars
    /\ [][ lastCall'.op = "create" =>
              (agentMap' = agentMap /\ tweens' = tweens /\ links' = links) ]_vars
    /\ [][ agentMap' # agentMap =>
              (inited /\ lastCall'.op \in {"updateAgents", "frame"}) ]_vars
    /\ ([]<>Accepted) => ((inited /\ Accepted) ~> Displayed)
    /\ ([]<>Accepted /\ <>inited) => <>Displayed

\* C16's case: the first snapshot went to updateAgents before create() had
\* run, create() has just run, and the scene shows none of its agents.
C16_Witness ==
    /\ inited
    /\ lastCall.op = "create"
    /\ agentPositions # <<>>
    /\ ~dirty
    /\ order.shown = 1
    /\ DOMAIN agentMap = {}
    /\ links = <<>>

\* the entries of snapshot S that carry id, in the order of S
EntriesOf(S, id) ==
    LET Mine(a) == a.id = id
    IN  SelectSeq(S, Mine)

\* the tweens this step added for container uid, in the order added
AddedFor(uid) ==
    LET Mine(t) == t.target = uid
    IN  SelectSeq(SubSeq(tweens', Len(tweens) + 1, Len(tweens')), Mine)

CellCentre(c) == IF c = Undefined THEN NaN ELSE PixelCentre(c)

\* C17: a pass over a snapshot that lists an id k times leaves one entity for
\* it: if the id had none it gets one container, at the first entry's cell,
\* and the k-1 later entries each add a tween to their own cell; if it had one
\* it keeps it and all k entries add a tween.  The live entities are as many
\* as the distinct ids, and the links are one less than the entries.
C17_DuplicateIds ==
    [][ PassStep =>
          LET S == lastCall'.agents
          IN  /\ DOMAIN agentMap' = currentIds(S)
              /\ Cardinality(DOMAIN agentMap') = Cardinality({ S[i].id : i \in DOMAIN S })
              /\ created' - created = Cardinality(currentIds(S) \ DOMAIN agentMap)
              /\ Len(links') = Max(Len(S) - 1, 0)
              /\ \A id \in currentIds(S) :
                    LET uid == agentMap'[id].uid
                        fresh == id \notin DOMAIN agentMap
                        mine == EntriesOf(S, id)
                        later == IF fresh THEN Tail(mine) ELSE mine
                    IN  /\ fresh => /\ uid > created
                                    /\ agentMap'[id].x = CellCentre(mine[1].x)
                                    /\ agentMap'[id].y = CellCentre(mine[1].y)
                        /\ ~fresh => uid = agentMap[id].uid
                        /\ Len(AddedFor(uid)) = Len(later)
                        /\ \A j \in DOMAIN later :
                              /\ AddedFor(uid)[j].x = CellCentre(later[j].x)
                              /\ AddedFor(uid)[j].y = CellCentre(later[j].y) ]_vars

\* C17's case: the last pass had two entries with one id and no entity for it
\* before: one entity exists, at the first entry's cell, with a tween to the
\* second entry's cell, and one link is drawn.
C17_Witness ==
    /\ AfterPass
    /\ Len(lastCall.agents) = 2
    /\ lastCall.agents[1].id = lastCall.agents[2].id
    /\ lastCall.agents[1].x # lastCall.agents[2].x
    /\ Cardinality(DOMAIN agentMap) = 1
    /\ created = 1
    /\ \A id \in DOMAIN agentMap :
          /\ agentMap[id].x = CellCentre(lastCall.agents[1].x)
          /\ Len(tweens) = 1
          /\ tweens[1].target = agentMap[id].uid
          /\ tweens[1].x = CellCentre(lastCall.agents[2].x)
    /\ Len(links) = 1

====
